---- MODULE Spec2Model ----
(***************************************************************************)
(* Password-reset and invite token lifecycle of ledger-link.               *)
(*                                                                         *)
(* Two deployment variants share the model:                                *)
(*   - the PHP+MySQL backend (forgot-password.php, reset-password.php,     *)
(*     update-password.php), whose token table stores the column `token`;  *)
(*   - the edge functions on Postgres (password-reset-request,             *)
(*     password-reset-confirm and the confirm variant that uses the auth   *)
(*     admin API), whose token table stores the column `token_hash`.       *)
(* Every request is a process; one step is one database statement or one   *)
(* network call, which is the granularity at which requests interleave.    *)
(***************************************************************************)
EXTENDS Integers, Sequences, FiniteSets, TLC

(* ---------------------------- bounds ---------------------------------- *)
MaxReqs == 3        \* requests started in one behaviour
MaxIssued == 2      \* raw tokens drawn from the random generator
MaxTicks == 2       \* clock advances in one behaviour
MaxInvites == 2     \* invite_tokens rows
MaxAccounts == 2    \* accounts created through the invite page

(* ----------------------- program constants ---------------------------- *)
TTL == 3600         \* time() + 3600 / Date.now() + 60 * 60 * 1000, in seconds
MinPasswordLen == 6 \* strlen($password) < 6 / password.length < 6

Procs == {1, 2}                 \* concurrent request handlers
Users == {"u1", "u2"}           \* rows of users / profiles
Emails == Users \cup {"nobody"} \* an email is named after its account
Passwords == {"hunter2x", "abc"}
NULL == -1                      \* SQL NULL of a timestamp column
Deltas == {1, TTL}              \* clock advances

UserByEmail(e) == IF e \in Users THEN e ELSE "none"

(* ------------------------- token generator ---------------------------- *)
\* bin2hex(random_bytes(32)) / generateToken(): the n-th draw of the
\* generator; 256 random bits never repeat, so every draw is a new value.
generateToken(n) == <<"raw", n + 1>>

\* SHA-256 hex digest of the raw token: one-way, a value of another domain.
hashToken(t) == <<"sha256", t[2]>>

\* password_hash($password, PASSWORD_DEFAULT) / bcrypt hash()
password_hash(pw) == <<"bcrypt", pw>>

Bogus == <<"raw", 0>>           \* a token value that no issuance produced
RawValues == {<<"raw", n>> : n \in 0..(MaxIssued + 1)}

(* --------------------------- responses -------------------------------- *)
Resp(st, flds, err) == [status |-> st, fields |-> flds, error |-> err]
NoResp == Resp(0, {}, "")
ErrResp(st, err) == Resp(st, {"error"}, err)

InvalidTokenText == "Invalid or expired reset token"
UsedTokenText == "Reset token has already been used"
ExpiredTokenText == "Reset token has expired"
GenericMessageFields == {"success", "message"}

(* ----------------------------- state ---------------------------------- *)
VARIABLES
    now,            \* wall clock, seconds
    ticks,          \* clock advances so far
    started,        \* requests started so far
    generated,      \* draws of the random generator so far
    appEnv,         \* APP_ENV of the PHP deployment
    myTokens,       \* MySQL password_reset_tokens
    users,          \* MySQL users.password_hash, by user
    sessions,       \* MySQL sessions: the users holding a session row
    pgTokens,       \* Postgres password_reset_tokens
    authPassword,   \* credential kept by the auth service, by user
    authSessions,   \* sessions kept by the auth service
    req,            \* per process: the request in progress
    redeemed,       \* history: raw tokens for which a redeem returned success
    superseded,     \* history: tokens that were active when a later issue completed
    invite_tokens,  \* invite_tokens rows
    user_roles,     \* user_roles rows
    links,          \* firm_accountants / clients rows
    accounts,       \* accounts created by sign-up
    inv,            \* the invite page: the redemption in progress
    lastMail,       \* the last request to an invite-email endpoint and its outcome
    smtp,           \* one SMTP delivery: the dialogue in progress
    fetch,          \* AuthContext: the fetchUserRole calls in progress
    userRole,       \* AuthContext: the userRole state
    roleRow         \* the role of the signed-in user's user_roles row, if any

resetVars == <<now, ticks, started, generated, appEnv, myTokens, users, sessions,
               pgTokens, authPassword, authSessions, req, redeemed, superseded>>
inviteVars == <<invite_tokens, user_roles, links, accounts, inv, lastMail>>
auxVars == <<smtp, fetch, userRole, roleRow>>
vars == <<resetVars, inviteVars, auxVars>>

NoRow == [id |-> 0, user_id |-> "none", expires_at |-> 0, used_at |-> NULL]

Idle == [kind |-> "idle", pc |-> "idle", email |-> "none", user |-> "none",
         token |-> Bogus, password |-> "", row |-> NoRow, raw |-> Bogus,
         expiresAt |-> 0, mail |-> "", resp |-> NoResp,
         wrote |-> FALSE, marked |-> FALSE, late |-> FALSE, expired |-> FALSE,
         sup |-> FALSE, cause |-> "", prior |-> {}]

NoInv == [pc |-> "idle", token |-> Bogus, role |-> "none", firmId |-> "none",
          account |-> 0]

NoMail == [endpoint |-> "none", session |-> FALSE, status |-> 0, sent |-> FALSE]

\* no delivery yet: no connection, nothing read, nothing returned
NoSmtp == [impl |-> "none", pc |-> "idle", secure |-> "none", opened |-> FALSE,
           closes |-> 0, result |-> "", error |-> <<"", 0>>, bad |-> "",
           after |-> FALSE]

Fetchers == {1, 2}      \* the callers of fetchUserRole: onAuthStateChange, getSession
Roles == {"firm", "accountant", "client"}
NoFetch == [pc |-> "idle", retryCount |-> 0, queries |-> 0, set |-> FALSE]

Init ==
    /\ now = 0
    /\ ticks = 0
    /\ started = 0
    /\ generated = 0
    /\ appEnv \in {"production", "development"}
    /\ myTokens = {}
    /\ users = [u \in Users |-> password_hash("initial")]
    /\ sessions = Users
    /\ pgTokens = {}
    /\ authPassword = [u \in Users |-> password_hash("initial")]
    /\ authSessions = Users
    /\ req = [p \in Procs |-> Idle]
    /\ redeemed = {}
    /\ superseded = {}
    /\ invite_tokens = {}
    /\ user_roles = {}
    /\ links = {}
    /\ accounts = 0
    /\ inv = NoInv
    /\ lastMail = NoMail
    /\ smtp = NoSmtp
    /\ fetch = [f \in Fetchers |-> NoFetch]
    /\ userRole = "none"
    /\ roleRow = "none"

(* ------------------------- common helpers ----------------------------- *)
Set(p, r) == req' = [req EXCEPT ![p] = r]

CanStart(p) == req[p].pc = "idle" /\ started < MaxReqs

\* a row can still be redeemed: WHERE expires_at > NOW() AND used_at IS NULL
Active(row) == row.expires_at > now /\ row.used_at = NULL

\* raw tokens of the rows of user u that can still be redeemed
ActiveMy(u) == {r.token : r \in {x \in myTokens : x.user_id = u /\ Active(x)}}

\* the clock
Tick ==
    /\ ticks < MaxTicks
    /\ \E d \in Deltas : now' = now + d
    /\ ticks' = ticks + 1
    /\ UNCHANGED <<started, generated, appEnv, myTokens, users, sessions, pgTokens,
                   authPassword, authSessions, req, redeemed, superseded, inviteVars, auxVars>>

\* the caller has read the response; the process takes the next request
Recycle(p) ==
    /\ req[p].pc = "done"
    /\ Set(p, Idle)
    /\ UNCHANGED <<now, ticks, started, generated, appEnv, myTokens, users, sessions,
                   pgTokens, authPassword, authSessions, redeemed, superseded, inviteVars, auxVars>>

clockVars == <<now, ticks>>
myVars == <<myTokens, users, sessions>>
pgVars == <<pgTokens, authPassword, authSessions>>
histVars == <<redeemed, superseded>>

\* issue requests that have not drawn their token yet
Pending == Cardinality({q \in Procs : req[q].pc \in {"fp_delete", "ei_delete"}})
CanIssue(p) == CanStart(p) /\ generated + Pending < MaxIssued

\* the raw values a caller can present: every value that has left an issue
\* handler (in a mail or in a response), or a guess
Presentable ==
    ({generateToken(n) : n \in 0..(generated - 1)}
        \ {req[q].raw : q \in {x \in Procs : req[x].pc \in {"fp_insert", "ei_insert"}}})
    \cup {Bogus}

(* ===================== forgot-password.php ============================ *)
\* lines 48-60 (and 151-163 of the token-returning variant): the user lookup;
\* an unknown email gets the generic success and nothing is written.
StartForgot(p, variant, email) ==
    /\ CanIssue(p)
    /\ started' = started + 1
    /\ LET u == UserByEmail(email) IN
         IF u = "none"
         THEN Set(p, [Idle EXCEPT !.kind = variant, !.pc = "done", !.email = email,
                        !.resp = Resp(200, GenericMessageFields, "")])
         ELSE Set(p, [Idle EXCEPT !.kind = variant, !.pc = "fp_delete", !.email = email,
                        !.user = u, !.prior = ActiveMy(u)])
    /\ UNCHANGED <<clockVars, generated, appEnv, myVars, pgVars, histVars, inviteVars, auxVars>>

\* the expiry computed as time() + 60
FpDelete_mut(p) ==
    /\ req[p].pc = "fp_delete"
    /\ myTokens' = {r \in myTokens : r.user_id # req[p].user}
    /\ generated' = generated + 1
    /\ Set(p, [req[p] EXCEPT !.pc = "fp_insert", !.raw = generateToken(generated),
                 !.expiresAt = now + 60])
    /\ UNCHANGED <<clockVars, started, appEnv, users, sessions, pgVars, histVars, inviteVars, auxVars>>

\* lines 62-68: DELETE FROM password_reset_tokens WHERE user_id = ?, then the
\* token and its expiry are computed.
FpDelete(p) ==
    /\ req[p].pc = "fp_delete"
    /\ myTokens' = {r \in myTokens : r.user_id # req[p].user}
    /\ generated' = generated + 1
    /\ Set(p, [req[p] EXCEPT !.pc = "fp_insert", !.raw = generateToken(generated),
                 !.expiresAt = now + TTL])
    /\ UNCHANGED <<clockVars, started, appEnv, users, sessions, pgVars, histVars, inviteVars, auxVars>>

\* the row forgot-password.php inserts: the `token` column is the raw value
MyRow(r) == [id |-> r.raw[2], user_id |-> r.user, token |-> r.raw,
             expires_at |-> r.expiresAt, used_at |-> NULL]

\* response of the token-returning variant, lines 184-190
DevResponse == Resp(200, GenericMessageFields \cup {"reset_token", "expires_at"}, "")

\* lines 70-75: INSERT; the token-returning variant answers right away.
FpInsert(p) ==
    /\ req[p].pc = "fp_insert"
    /\ myTokens' = myTokens \cup {MyRow(req[p])}
    /\ IF req[p].kind = "forgotDev"
       THEN /\ Set(p, [req[p] EXCEPT !.pc = "done", !.resp = DevResponse])
            /\ superseded' = superseded \cup (req[p].prior \ {req[p].raw})
       ELSE /\ Set(p, [req[p] EXCEPT !.pc = "fp_mail"])
            /\ UNCHANGED superseded
    /\ UNCHANGED <<clockVars, started, generated, appEnv, users, sessions, pgVars,
                   redeemed, inviteVars, auxVars>>

\* lines 86-103: the response of the SMTP variant
ForgotResponse(sent, env) ==
    LET base == GenericMessageFields \cup {"email_sent"}
        debug == IF env = "production" THEN {}
                 ELSE {"debug_reset_link", "debug_reset_token", "expires_at"}
                      \cup (IF sent THEN {} ELSE {"debug_email_error"})
    IN Resp(200, base \cup debug, "")

\* lines 77-105: the mail is sent (or fails) and the response is built.
FpMail(p) ==
    /\ req[p].pc = "fp_mail"
    /\ \E sent \in BOOLEAN :
         Set(p, [req[p] EXCEPT !.pc = "done",
                   !.mail = IF sent THEN "sent" ELSE "failed",
                   !.resp = ForgotResponse(sent, appEnv)])
    /\ superseded' = superseded \cup (req[p].prior \ {req[p].raw})
    /\ UNCHANGED <<clockVars, started, generated, appEnv, myVars, pgVars, redeemed,
                   inviteVars, auxVars>>

(* ====================== reset-password.php ============================ *)
\* lines 135-142: the row the SELECT returns
MySelect(token) ==
    {r \in myTokens : r.token = token /\ r.expires_at > now /\ r.used_at = NULL}

Snapshot(r) == [id |-> r.id, user_id |-> r.user_id, expires_at |-> r.expires_at,
                used_at |-> r.used_at]

\* why a presented token is not redeemable, for the record
MyCause(token) ==
    LET rows == {r \in myTokens : r.token = token} IN
      IF rows = {} THEN "unknown"
      ELSE IF \E r \in rows : r.used_at # NULL THEN "used" ELSE "expired"

\* lines 108-150: validation and the token lookup
StartReset(p, token, password) ==
    /\ CanStart(p)
    /\ started' = started + 1
    /\ LET base == [Idle EXCEPT !.kind = "reset", !.token = token, !.password = password,
                      !.late = token \in redeemed, !.sup = token \in superseded,
                      !.expired = \E r \in myTokens : r.token = token /\ now > r.expires_at]
           found == MySelect(token)
       IN IF Len(password) < MinPasswordLen
          THEN Set(p, [base EXCEPT !.pc = "done",
                         !.resp = ErrResp(400, "Password must be at least 6 characters")])
          ELSE IF found = {}
          THEN Set(p, [base EXCEPT !.pc = "done", !.cause = MyCause(token),
                         !.resp = ErrResp(400, InvalidTokenText)])
          ELSE \E r \in found :
                 Set(p, [base EXCEPT !.pc = "rp_update", !.row = Snapshot(r),
                           !.user = r.user_id])
    /\ UNCHANGED <<clockVars, generated, appEnv, myVars, pgVars, histVars, inviteVars, auxVars>>

\* lines 152-155: UPDATE users SET password_hash = ?
RpUpdate(p) ==
    /\ req[p].pc = "rp_update"
    /\ users' = [users EXCEPT ![req[p].row.user_id] = password_hash(req[p].password)]
    /\ Set(p, [req[p] EXCEPT !.pc = "rp_mark", !.wrote = TRUE])
    /\ UNCHANGED <<clockVars, started, generated, appEnv, myTokens, sessions, pgVars,
                   histVars, inviteVars, auxVars>>

\* an update that clears a used_at that is already set
MarkUsed_mut(rows, id, t) ==
    {IF r.id = id THEN [r EXCEPT !.used_at = IF r.used_at = NULL THEN t ELSE NULL]
     ELSE r : r \in rows}

\* UPDATE password_reset_tokens SET used_at = NOW() WHERE id = ?
MarkUsed(rows, id, t) ==
    {IF r.id = id THEN [r EXCEPT !.used_at = t] ELSE r : r \in rows}

\* lines 157-159
RpMark(p) ==
    /\ req[p].pc = "rp_mark"
    /\ myTokens' = MarkUsed(myTokens, req[p].row.id, now)
    /\ Set(p, [req[p] EXCEPT !.pc = "rp_sessions", !.marked = TRUE])
    /\ UNCHANGED <<clockVars, started, generated, appEnv, users, sessions, pgVars,
                   histVars, inviteVars, auxVars>>

SuccessResponse == Resp(200, GenericMessageFields, "")

\* DELETE FROM sessions without the WHERE clause
RpSessions_mut(p) ==
    /\ req[p].pc = "rp_sessions"
    /\ sessions' = {}
    /\ Set(p, [req[p] EXCEPT !.pc = "done", !.resp = SuccessResponse])
    /\ redeemed' = redeemed \cup {req[p].token}
    /\ UNCHANGED <<clockVars, started, generated, appEnv, myTokens, users, pgVars,
                   superseded, inviteVars, auxVars>>

\* lines 161-168: DELETE FROM sessions WHERE user_id = ?, then success
RpSessions(p) ==
    /\ req[p].pc = "rp_sessions"
    /\ sessions' = sessions \ {req[p].row.user_id}
    /\ Set(p, [req[p] EXCEPT !.pc = "done", !.resp = SuccessResponse])
    /\ redeemed' = redeemed \cup {req[p].token}
    /\ UNCHANGED <<clockVars, started, generated, appEnv, myTokens, users, pgVars,
                   superseded, inviteVars, auxVars>>

(* ====================== update-password.php =========================== *)
ExpectedKey == "supabase-internal-update"

Field(body, f, default) == IF f \in DOMAIN body THEN body[f] ELSE default

\* lines 21-65: what the endpoint answers to a body before it writes anything
UpdatePasswordCheck(body) ==
    LET email == Field(body, "email", "")
        password == Field(body, "password", "")
        internalKey == Field(body, "internal_key", "")
    IN IF internalKey # ExpectedKey THEN ErrResp(403, "Unauthorized")
       ELSE IF email = "" THEN ErrResp(400, "Email is required")
       ELSE IF password = "" THEN ErrResp(400, "Password is required")
       ELSE IF Len(password) < MinPasswordLen
            THEN ErrResp(400, "Password must be at least 6 characters")
       ELSE IF UserByEmail(email) = "none" THEN ErrResp(404, "User not found")
       ELSE SuccessResponse

\* bodies a direct caller of the endpoint sends
DirectBodies ==
    {[email |-> e, password |-> pw, internal_key |-> k] :
        e \in Emails, pw \in Passwords, k \in {ExpectedKey, "guess"}}

\* lines 21-65, called directly
StartUpdate(p, body) ==
    /\ CanStart(p)
    /\ started' = started + 1
    /\ LET r == UpdatePasswordCheck(body)
           base == [Idle EXCEPT !.kind = "update", !.email = body.email,
                      !.password = body.password]
       IN IF r.status # 200
          THEN Set(p, [base EXCEPT !.pc = "done", !.resp = r])
          ELSE Set(p, [base EXCEPT !.pc = "up_update", !.user = UserByEmail(body.email)])
    /\ UNCHANGED <<clockVars, generated, appEnv, myVars, pgVars, histVars, inviteVars, auxVars>>

\* lines 67-72: UPDATE users SET password_hash = ?
UpUpdate(p) ==
    /\ req[p].pc = "up_update"
    /\ users' = [users EXCEPT ![req[p].user] = password_hash(req[p].password)]
    /\ Set(p, [req[p] EXCEPT !.pc = "up_sessions", !.wrote = TRUE])
    /\ UNCHANGED <<clockVars, started, generated, appEnv, myTokens, sessions, pgVars,
                   histVars, inviteVars, auxVars>>

\* lines 74-81: DELETE FROM sessions WHERE user_id = ?
UpSessions(p) ==
    /\ req[p].pc = "up_sessions"
    /\ sessions' = sessions \ {req[p].user}
    /\ Set(p, [req[p] EXCEPT !.pc = "done", !.resp = SuccessResponse])
    /\ UNCHANGED <<clockVars, started, generated, appEnv, myTokens, users, pgVars,
                   histVars, inviteVars, auxVars>>

(* ================= password-reset-request (edge) ====================== *)
RawOf(h) == <<"raw", h[2]>>     \* bookkeeping only: the raw value behind a digest

ActivePg(u) ==
    {RawOf(r.token_hash) : r \in {x \in pgTokens : x.user_id = u /\ Active(x)}}

EdgeSuccess == Resp(200, {"success"}, "")

\* lines 113-147: the profile lookup; a lookup error is logged and the request
\* goes on with no profile.
StartRequest(p, email) ==
    /\ CanIssue(p)
    /\ started' = started + 1
    /\ \E lookupOk \in BOOLEAN :
         LET u == IF lookupOk THEN UserByEmail(email) ELSE "none" IN
           IF u = "none"
           THEN Set(p, [Idle EXCEPT !.kind = "request", !.pc = "done", !.email = email,
                          !.resp = EdgeSuccess])
           ELSE Set(p, [Idle EXCEPT !.kind = "request", !.pc = "ei_delete",
                          !.email = email, !.user = u, !.prior = ActivePg(u)])
    /\ UNCHANGED <<clockVars, generated, appEnv, myVars, pgVars, histVars, inviteVars, auxVars>>

\* lines 149-158: delete().eq("user_id", ...) whose result is not looked at,
\* then the token, its digest and its expiry are computed.
EiDelete(p) ==
    /\ req[p].pc = "ei_delete"
    /\ \E ok \in BOOLEAN :
         pgTokens' = IF ok THEN {r \in pgTokens : r.user_id # req[p].user} ELSE pgTokens
    /\ generated' = generated + 1
    /\ Set(p, [req[p] EXCEPT !.pc = "ei_insert", !.raw = generateToken(generated),
                 !.expiresAt = now + TTL])
    /\ UNCHANGED <<clockVars, started, appEnv, myVars, authPassword, authSessions,
                   histVars, inviteVars, auxVars>>

\* the row the edge function inserts: the `token_hash` column is the digest
PgRow(r) == [id |-> r.raw[2], user_id |-> r.user, token_hash |-> hashToken(r.raw),
             expires_at |-> r.expiresAt, used_at |-> NULL]

\* lines 160-168: insert; token_hash is UNIQUE
EiInsert(p) ==
    /\ req[p].pc = "ei_insert"
    /\ \E ok \in BOOLEAN :
         IF ok /\ ~(\E r \in pgTokens : r.token_hash = hashToken(req[p].raw))
         THEN /\ pgTokens' = pgTokens \cup {PgRow(req[p])}
              /\ Set(p, [req[p] EXCEPT !.pc = "ei_mail"])
         ELSE /\ pgTokens' = pgTokens
              /\ Set(p, [req[p] EXCEPT !.pc = "done",
                           !.resp = ErrResp(500, "Failed to create reset token")])
    /\ UNCHANGED <<clockVars, started, generated, appEnv, myVars, authPassword,
                   authSessions, histVars, inviteVars, auxVars>>

\* lines 170-225: SMTP settings are read and the mail is sent
RequestResponse(outcome) ==
    IF outcome = "sent" THEN EdgeSuccess
    ELSE IF outcome = "noconfig" THEN ErrResp(500, "SMTP configuration incomplete")
    ELSE ErrResp(500, "SMTP error")

EiMail(p) ==
    /\ req[p].pc = "ei_mail"
    /\ \E outcome \in {"sent", "noconfig", "failed"} :
         /\ Set(p, [req[p] EXCEPT !.pc = "done", !.mail = outcome,
                      !.resp = RequestResponse(outcome)])
         /\ superseded' = IF outcome = "sent"
                          THEN superseded \cup (req[p].prior \ {req[p].raw})
                          ELSE superseded
    /\ UNCHANGED <<clockVars, started, generated, appEnv, myVars, pgVars, redeemed,
                   inviteVars, auxVars>>

(* ================= password-reset-confirm (edge) ====================== *)
\* lines 50-54: select().eq("token_hash", tokenHash).maybeSingle()
PgSelect(token) == {r \in pgTokens : r.token_hash = hashToken(token)}

\* lines 22-83 of both confirm functions: validation, lookup, the used and
\* expired checks on the row that was read.
StartConfirm(p, kind, next, token, password) ==
    /\ CanStart(p)
    /\ started' = started + 1
    /\ LET found == PgSelect(token)
           base == [Idle EXCEPT !.kind = kind, !.token = token, !.password = password,
                      !.late = token \in redeemed, !.sup = token \in superseded,
                      !.expired = \E r \in found : now > r.expires_at]
       IN IF Len(password) < MinPasswordLen
          THEN Set(p, [base EXCEPT !.pc = "done",
                         !.resp = ErrResp(400, "Password must be at least 6 characters")])
          ELSE IF found = {}
          THEN Set(p, [base EXCEPT !.pc = "done", !.cause = "unknown",
                         !.resp = ErrResp(400, InvalidTokenText)])
          ELSE \E r \in found :
                 IF r.used_at # NULL
                 THEN Set(p, [base EXCEPT !.pc = "done", !.cause = "used",
                                !.resp = ErrResp(400, UsedTokenText)])
                 ELSE IF r.expires_at < now
                 THEN Set(p, [base EXCEPT !.pc = "done", !.cause = "expired",
                                !.resp = ErrResp(400, ExpiredTokenText)])
                 ELSE Set(p, [base EXCEPT !.pc = next, !.row = Snapshot(r),
                                !.user = r.user_id])
    /\ UNCHANGED <<clockVars, generated, appEnv, myVars, pgVars, histVars, inviteVars, auxVars>>

\* lines 107-117: the body posted to update-password.php
ConfirmBody(r) ==
    [email |-> r.user, password_hash |-> password_hash(r.password),
     internal_key |-> ExpectedKey]

\* lines 85-125: profile lookup, bcrypt, then the call of update-password.php;
\* a reply that is not ok is thrown and answered with status 500.
EcFetch(p) ==
    /\ req[p].pc = "ec_fetch"
    /\ LET r == UpdatePasswordCheck(ConfirmBody(req[p])) IN
         IF r.status = 200
         THEN /\ users' = [users EXCEPT ![req[p].user] =
                                 password_hash(Field(ConfirmBody(req[p]), "password", ""))]
              /\ sessions' = sessions \ {req[p].user}
              /\ Set(p, [req[p] EXCEPT !.pc = "mark", !.wrote = TRUE])
         ELSE /\ UNCHANGED <<users, sessions>>
              /\ Set(p, [req[p] EXCEPT !.pc = "done", !.resp = ErrResp(500, r.error)])
    /\ UNCHANGED <<clockVars, started, generated, appEnv, myTokens, pgVars, histVars,
                   inviteVars, auxVars>>

\* part_006 lines 83-92: auth.admin.updateUserById(user_id, { password }).
\* The handler makes no sign-out call of its own; whether the auth service
\* drops the user's sessions when an administrator sets the password is up to
\* the service, so both outcomes are possible.
EaUpdate(p) ==
    /\ req[p].pc = "ea_update"
    /\ \E ok \in BOOLEAN, revoked \in BOOLEAN :
         IF ok
         THEN /\ authPassword' = [authPassword EXCEPT ![req[p].user] =
                                        password_hash(req[p].password)]
              /\ authSessions' = IF revoked THEN authSessions \ {req[p].user}
                                  ELSE authSessions
              /\ Set(p, [req[p] EXCEPT !.pc = "mark", !.wrote = TRUE])
         ELSE /\ UNCHANGED <<authPassword, authSessions>>
              /\ Set(p, [req[p] EXCEPT !.pc = "done",
                           !.resp = ErrResp(500, "Failed to update password")])
    /\ UNCHANGED <<clockVars, started, generated, appEnv, myVars, pgTokens,
                   histVars, inviteVars, auxVars>>

\* lines 127-138 (part_006 lines 94-105): update({ used_at }).eq("id", ...),
\* whose result is not looked at, then the success response.
EdgeMark(p) ==
    /\ req[p].pc = "mark"
    /\ \E ok \in BOOLEAN :
         /\ pgTokens' = IF ok THEN MarkUsed(pgTokens, req[p].row.id, now) ELSE pgTokens
         /\ Set(p, [req[p] EXCEPT !.pc = "done", !.marked = ok, !.resp = SuccessResponse])
    /\ redeemed' = redeemed \cup {req[p].token}
    /\ UNCHANGED <<clockVars, started, generated, appEnv, myVars, authPassword,
                   authSessions, superseded, inviteVars, auxVars>>

NextPhp ==
    \/ Tick
    \/ \E p \in Procs : Recycle(p)
    \/ \E p \in Procs, v \in {"forgot", "forgotDev"}, e \in Emails : StartForgot(p, v, e)
    \/ \E p \in Procs : FpDelete(p)
    \/ \E p \in Procs : FpInsert(p)
    \/ \E p \in Procs : FpMail(p)
    \/ \E p \in Procs, t \in Presentable, pw \in Passwords : StartReset(p, t, pw)
    \/ \E p \in Procs : RpUpdate(p)
    \/ \E p \in Procs : RpMark(p)
    \/ \E p \in Procs : RpSessions(p)
    \/ \E p \in Procs, b \in DirectBodies : StartUpdate(p, b)
    \/ \E p \in Procs : UpUpdate(p)
    \/ \E p \in Procs : UpSessions(p)

SpecPhp == Init /\ [][NextPhp]_vars

\* the token lifecycle of one account of the PHP backend, in a production
\* deployment: forgot-password.php with mail, for the account's address and
\* for an unknown address, reset-password.php and the clock
NextCore ==
    \/ Tick
    \/ \E p \in Procs : Recycle(p)
    \/ \E p \in Procs, e \in {"u1", "nobody"} : StartForgot(p, "forgot", e)
    \/ \E p \in Procs : FpDelete(p)
    \/ \E p \in Procs : FpInsert(p)
    \/ \E p \in Procs : FpMail(p)
    \/ \E p \in Procs, t \in Presentable, pw \in Passwords : StartReset(p, t, pw)
    \/ \E p \in Procs : RpUpdate(p)
    \/ \E p \in Procs : RpMark(p)
    \/ \E p \in Procs : RpSessions(p)

CoreInit == Init /\ appEnv = "production"

SpecCore == CoreInit /\ [][NextCore]_vars

\* every request of the PHP backend at one instant: the writes of the
\* handlers without the passage of time
NextFrame ==
    \/ \E p \in Procs : Recycle(p)
    \/ \E p \in Procs, v \in {"forgot", "forgotDev"}, e \in Emails : StartForgot(p, v, e)
    \/ \E p \in Procs : FpDelete(p)
    \/ \E p \in Procs : FpInsert(p)
    \/ \E p \in Procs : FpMail(p)
    \/ \E p \in Procs, t \in Presentable, pw \in Passwords : StartReset(p, t, pw)
    \/ \E p \in Procs : RpUpdate(p)
    \/ \E p \in Procs : RpMark(p)
    \/ \E p \in Procs : RpSessions(p)
    \/ \E p \in Procs, b \in DirectBodies : StartUpdate(p, b)
    \/ \E p \in Procs : UpUpdate(p)
    \/ \E p \in Procs : UpSessions(p)

SpecFrame == Init /\ [][NextFrame]_vars

NextEdge ==
    \/ Tick
    \/ \E p \in Procs : Recycle(p)
    \/ \E p \in Procs, e \in Emails : StartRequest(p, e)
    \/ \E p \in Procs : EiDelete(p)
    \/ \E p \in Procs : EiInsert(p)
    \/ \E p \in Procs : EiMail(p)
    \/ \E p \in Procs, t \in Presentable, pw \in Passwords :
          StartConfirm(p, "confirm", "ec_fetch", t, pw)
    \/ \E p \in Procs, t \in Presentable, pw \in Passwords :
          StartConfirm(p, "confirmAdmin", "ea_update", t, pw)
    \/ \E p \in Procs : EcFetch(p)
    \/ \E p \in Procs : EaUpdate(p)
    \/ \E p \in Procs : EdgeMark(p)

SpecEdge == Init /\ [][NextEdge]_vars

(* ========================= invitations ================================ *)
Firms == {"F1", "F2"}
InviteRoles == {"accountant", "client"}

\* FirmDashboard handleInvite: a signed-in firm inserts an invite_tokens row;
\* the database draws the token; the link carries the token only.
HandleInvite(firm, role) ==
    /\ Cardinality(invite_tokens) < MaxInvites
    /\ invite_tokens' = invite_tokens \cup
          {[token |-> <<"raw", Cardinality(invite_tokens) + 1>>, firm_id |-> firm,
            role |-> role]}
    /\ UNCHANGED <<resetVars, auxVars, user_roles, links, accounts, inv, lastMail>>

\* what the query string of an /invite URL can carry
TokenParams == {r.token : r \in invite_tokens} \cup {Bogus}
RoleParams == InviteRoles \cup {"none", "firm"}
FirmParams == Firms \cup {"none"}

\* Invite.tsx lines 22-44: the page reads token, role and firm from the query
\* string; the form is shown when role and firm are present and the role is
\* accountant or client.
OpenInvite(token, roleParam, firmIdParam) ==
    /\ inv.pc = "idle"
    /\ accounts < MaxAccounts
    /\ roleParam # "none" /\ firmIdParam # "none"
    /\ roleParam = "accountant" \/ roleParam = "client"
    /\ inv' = [pc |-> "form", token |-> token, role |-> roleParam,
               firmId |-> firmIdParam, account |-> 0]
    /\ UNCHANGED <<resetVars, auxVars, invite_tokens, user_roles, links, accounts, lastMail>>

\* lines 68-97: handleSubmit signs the user up
SubmitSignUp ==
    /\ inv.pc = "form"
    /\ \E ok \in BOOLEAN :
         IF ok
         THEN /\ accounts' = accounts + 1
              /\ inv' = [inv EXCEPT !.pc = "role", !.account = accounts + 1]
         ELSE /\ accounts' = accounts
              /\ inv' = NoInv
    /\ UNCHANGED <<resetVars, auxVars, invite_tokens, user_roles, links, lastMail>>

\* lines 99-112: insert into user_roles
InsertRole ==
    /\ inv.pc = "role"
    /\ \E ok \in BOOLEAN :
         IF ok
         THEN /\ user_roles' = user_roles \cup
                     {[user_id |-> inv.account, role |-> inv.role, via |-> inv.token]}
              /\ inv' = [inv EXCEPT !.pc = "link"]
         ELSE /\ user_roles' = user_roles
              /\ inv' = NoInv
    /\ UNCHANGED <<resetVars, auxVars, invite_tokens, links, accounts, lastMail>>

\* the relationship row handleSubmit inserts
LinkRow(i) ==
    [table |-> IF i.role = "accountant" THEN "firm_accountants" ELSE "clients",
     firm_id |-> i.firmId, user_id |-> i.account, via |-> i.token]

\* lines 114-151: insert into firm_accountants or clients
InsertLink ==
    /\ inv.pc = "link"
    /\ \E ok \in BOOLEAN :
         links' = IF ok THEN links \cup {LinkRow(inv)} ELSE links
    /\ inv' = NoInv
    /\ UNCHANGED <<resetVars, auxVars, invite_tokens, user_roles, accounts, lastMail>>

\* helpers/jwt.php requireAuth(): answers 401 and stops the script unless the
\* request carries a valid session token
requireAuth(session) == IF session THEN "user" ELSE "rejected"

MailTo == {"a@firm.example", ""}    \* the email field of an invite-email request

\* send-email.php lines 16-83: requireAuth, validation of the email, then the
\* mail through smtp_send_mail
SendEmailPhp(session, email) ==
    /\ \E delivered \in BOOLEAN :
         lastMail' =
            IF requireAuth(session) = "rejected"
            THEN [endpoint |-> "send-email.php", session |-> session,
                  status |-> 401, sent |-> FALSE]
            ELSE IF email = ""
            THEN [endpoint |-> "send-email.php", session |-> session,
                  status |-> 400, sent |-> FALSE]
            ELSE [endpoint |-> "send-email.php", session |-> session,
                  status |-> IF delivered THEN 200 ELSE 500, sent |-> delivered]
    /\ UNCHANGED <<resetVars, auxVars, invite_tokens, user_roles, links, accounts, inv>>

\* send-invite-email lines 16-113: the body is read and the mail is sent; the
\* handler looks at no header of the request
SendInviteEmail(session, email) ==
    /\ \E delivered \in BOOLEAN :
         lastMail' = [endpoint |-> "send-invite-email", session |-> session,
                      status |-> IF delivered THEN 200 ELSE 500, sent |-> delivered]
    /\ UNCHANGED <<resetVars, auxVars, invite_tokens, user_roles, links, accounts, inv>>

NextInvite ==
    \/ \E f \in Firms, r \in InviteRoles : HandleInvite(f, r)
    \/ \E t \in TokenParams, r \in RoleParams, f \in FirmParams : OpenInvite(t, r, f)
    \/ SubmitSignUp
    \/ InsertRole
    \/ InsertLink
    \/ \E s \in BOOLEAN, e \in MailTo : SendEmailPhp(s, e)
    \/ \E s \in BOOLEAN, e \in MailTo : SendInviteEmail(s, e)

SpecInvite == Init /\ [][NextInvite]_vars

(* ========================= AuthContext.tsx ============================ *)
\* a retry bound that is one too large
ShouldRetry_mut(retryCount) == retryCount < 4

\* line 34: else if (retryCount < 3)
ShouldRetry(retryCount) == retryCount < 3

\* lines 42-50 and 58-64: a caller invokes fetchUserRole(userId)
StartFetch(f) ==
    /\ fetch[f].pc = "idle"
    /\ fetch' = [fetch EXCEPT ![f].pc = "query"]
    /\ UNCHANGED <<resetVars, inviteVars, smtp, userRole, roleRow>>

\* lines 26-38: the select on user_roles; data is the row, or null when there
\* is no row or the query failed; a row sets userRole, no row schedules a
\* retry while retryCount < 3
Query(f) ==
    /\ fetch[f].pc = "query"
    /\ \E answered \in BOOLEAN :
         LET data == IF answered THEN roleRow ELSE "none"
             q == fetch[f].queries + 1
         IN IF data # "none"
            THEN /\ userRole' = data
                 /\ fetch' = [fetch EXCEPT ![f].pc = "done", ![f].queries = q,
                                            ![f].set = TRUE]
            ELSE /\ userRole' = userRole
                 /\ fetch' = [fetch EXCEPT ![f].queries = q,
                                 ![f].pc = IF ShouldRetry(fetch[f].retryCount)
                                           THEN "delay" ELSE "done"]
    /\ UNCHANGED <<resetVars, inviteVars, smtp, roleRow>>

\* lines 36-37: the 500 ms timer fires and fetchUserRole(userId, retryCount + 1)
\* is called
Delay(f) ==
    /\ fetch[f].pc = "delay"
    /\ fetch' = [fetch EXCEPT ![f].pc = "query",
                               ![f].retryCount = fetch[f].retryCount + 1]
    /\ UNCHANGED <<resetVars, inviteVars, smtp, userRole, roleRow>>

\* Invite.tsx lines 99-112: the sign-up flow inserts the user's user_roles row
RoleInserted(r) ==
    /\ roleRow = "none"
    /\ roleRow' = r
    /\ UNCHANGED <<resetVars, inviteVars, smtp, fetch, userRole>>

NextRole ==
    \/ \E f \in Fetchers : StartFetch(f)
    \/ \E f \in Fetchers : Query(f)
    \/ \E f \in Fetchers : Delay(f)
    \/ \E r \in Roles : RoleInserted(r)

SpecRole == Init /\ [][NextRole]_vars

(* =============================== SMTP ================================= *)
\* the reply codes the server can answer with; 0 stands for a read that
\* returns nothing because the peer closed the connection
Codes == {220, 221, 235, 250, 251, 334, 354, 550, 0}

\* smtp.php: the prefixes each $expect call accepts; the reply to QUIT is read
\* and not looked at
PhpExpected(stage) ==
    CASE stage = "greeting" -> {220}
      [] stage = "ehlo"     -> {250}
      [] stage = "helo"     -> {250}
      [] stage = "starttls" -> {220}
      [] stage = "ehlo2"    -> {250}
      [] stage = "auth"     -> {334}
      [] stage = "user"     -> {334}
      [] stage = "pass"     -> {235}
      [] stage = "mail"     -> {250}
      [] stage = "rcpt"     -> {250, 251}
      [] stage = "data"     -> {354}
      [] stage = "body"     -> {250}
      [] stage = "quit"     -> Codes

\* smtp.php: the $context of each $expect call
PhpContext(stage) ==
    CASE stage = "greeting" -> "SMTP greeting"
      [] stage = "ehlo"     -> "EHLO failed"
      [] stage = "helo"     -> "HELO failed"
      [] stage = "starttls" -> "STARTTLS failed"
      [] stage = "ehlo2"    -> "EHLO after STARTTLS failed"
      [] stage = "auth"     -> "AUTH LOGIN not accepted"
      [] stage = "user"     -> "SMTP username rejected"
      [] stage = "pass"     -> "SMTP password rejected"
      [] stage = "mail"     -> "MAIL FROM failed"
      [] stage = "rcpt"     -> "RCPT TO failed"
      [] stage = "data"     -> "DATA command failed"
      [] stage = "body"     -> "Message body rejected"
      [] stage = "quit"     -> "QUIT"

\* the stage whose command is sent once the reply of this stage was accepted
StageAfter(stage, secure) ==
    CASE stage = "greeting" -> "ehlo"
      [] stage \in {"ehlo", "helo"} ->
            IF secure \in {"starttls", "tls"} THEN "starttls" ELSE "auth"
      [] stage = "starttls" -> "ehlo2"
      [] stage = "ehlo2"    -> "auth"
      [] stage = "auth"     -> "user"
      [] stage = "user"     -> "pass"
      [] stage = "pass"     -> "mail"
      [] stage = "mail"     -> "rcpt"
      [] stage = "rcpt"     -> "data"
      [] stage = "data"     -> "body"
      [] stage = "body"     -> "quit"

\* the acknowledgement of each stage: the codes smtp.php expects, and 221 for
\* QUIT as sendEmail expects it
Expected(stage) == IF stage = "quit" THEN {221} ELSE PhpExpected(stage)

\* for the record: the first stage whose reply was not its acknowledgement
Noted(r, code) ==
    IF r.bad = "" /\ code \notin Expected(r.pc) THEN [r EXCEPT !.bad = r.pc] ELSE r

\* the command of the next stage is written to the connection
Sends(r, next) == [r EXCEPT !.pc = next, !.after = r.after \/ r.bad # ""]

\* smtp.php lines 23-46: the settings are read and the socket is opened
PhpConnect(configured, connected, secure) ==
    /\ smtp.impl = "none"
    /\ smtp' =
          IF ~configured
          THEN [NoSmtp EXCEPT !.impl = "php", !.pc = "returned", !.result = "error",
                              !.error = <<"SMTP is not configured", 0>>]
          ELSE IF ~connected
          THEN [NoSmtp EXCEPT !.impl = "php", !.pc = "returned", !.result = "error",
                              !.error = <<"SMTP connect failed", 0>>]
          ELSE [NoSmtp EXCEPT !.impl = "php", !.pc = "greeting", !.secure = secure,
                              !.opened = TRUE]
    /\ UNCHANGED <<resetVars, inviteVars, fetch, userRole, roleRow>>

\* a return that leaves the socket open
PhpFail_mut(r, context, code) ==
    [r EXCEPT !.pc = "returned", !.result = "error", !.error = <<context, code>>]

\* fclose($fp); return ['success' => false, 'error' => $err];
PhpFail(r, context, code) ==
    [r EXCEPT !.pc = "returned", !.closes = r.closes + 1, !.result = "error",
              !.error = <<context, code>>]

\* smtp.php lines 72-199: one reply is read and handled
PhpReply(code) ==
    /\ smtp.impl = "php"
    /\ smtp.pc \notin {"idle", "returned"}
    /\ LET r == Noted(smtp, code)
           st == smtp.pc
       IN IF st = "quit"
          THEN smtp' = [r EXCEPT !.pc = "returned", !.closes = r.closes + 1,
                                 !.result = "success"]
          ELSE IF code \notin PhpExpected(st)
          THEN IF st = "ehlo"
               THEN smtp' = [r EXCEPT !.pc = "helo"]
               ELSE smtp' = PhpFail(r, PhpContext(st), code)
          ELSE IF st = "starttls"
          THEN \E cryptoOk \in BOOLEAN :
                  smtp' = IF cryptoOk THEN Sends(r, "ehlo2")
                          ELSE PhpFail(r, "TLS negotiation failed", code)
          ELSE smtp' = Sends(r, StageAfter(st, r.secure))
    /\ UNCHANGED <<resetVars, inviteVars, fetch, userRole, roleRow>>

\* sendEmail: the code each sendCommand expects; the greeting and the reply
\* to the message are read and not looked at
EdgeExpected(stage) ==
    CASE stage \in {"greeting", "body"} -> Codes
      [] stage = "rcpt" -> {250}
      [] stage = "quit" -> {221}
      [] OTHER -> PhpExpected(stage)

\* sendEmail lines 34-39: connectTls on port 465, connect otherwise
EdgeConnect(port, connected) ==
    /\ smtp.impl = "none"
    /\ smtp' =
          IF ~connected
          THEN [NoSmtp EXCEPT !.impl = "edge", !.pc = "returned", !.result = "error",
                              !.error = <<"connect", 0>>]
          ELSE [NoSmtp EXCEPT !.impl = "edge", !.pc = "greeting", !.opened = TRUE,
                   !.secure = IF port = 587 THEN "starttls"
                              ELSE IF port = 465 THEN "ssl" ELSE "none"]
    /\ UNCHANGED <<resetVars, inviteVars, fetch, userRole, roleRow>>

\* a throw inside the try block: the finally block closes the connection
EdgeThrow(r, message, code) ==
    [r EXCEPT !.pc = "returned", !.closes = r.closes + 1, !.result = "error",
              !.error = <<message, code>>]

\* sendEmail lines 41-105: one reply is read and handled
EdgeReply(code) ==
    /\ smtp.impl = "edge"
    /\ smtp.pc \notin {"idle", "returned"}
    /\ LET r == Noted(smtp, code)
           st == smtp.pc
       IN IF code = 0
          THEN smtp' = EdgeThrow(r, "Connection closed", code)
          ELSE IF code \notin EdgeExpected(st)
          THEN smtp' = EdgeThrow(r, "SMTP error", code)
          ELSE IF st = "quit"
          THEN smtp' = [r EXCEPT !.pc = "returned", !.closes = r.closes + 1,
                                 !.result = "success"]
          ELSE IF st = "starttls"
          THEN \E tlsOk \in BOOLEAN :
                  smtp' = IF tlsOk THEN Sends(r, "ehlo2")
                          ELSE EdgeThrow(r, "startTls", code)
          ELSE smtp' = Sends(r, StageAfter(st, r.secure))
    /\ UNCHANGED <<resetVars, inviteVars, fetch, userRole, roleRow>>

NextSmtp ==
    \/ \E c \in BOOLEAN, k \in BOOLEAN, s \in {"ssl", "starttls", "tls"} :
          PhpConnect(c, k, s)
    \/ \E code \in Codes : PhpReply(code)
    \/ \E port \in {25, 465, 587}, k \in BOOLEAN : EdgeConnect(port, k)
    \/ \E code \in Codes : EdgeReply(code)

SpecSmtp == Init /\ [][NextSmtp]_vars

Next == NextPhp \/ NextEdge \/ NextInvite \/ NextRole \/ NextSmtp
Spec == Init /\ [][Next]_vars

(* ============================ claims ================================== *)
RedeemKinds == {"reset", "confirm", "confirmAdmin"}
IssueKinds == {"forgot", "forgotDev", "request"}
IsRedeem(p) == req[p].kind \in RedeemKinds /\ Len(req[p].password) >= MinPasswordLen
Done(p) == req[p].pc = "done"
Succeeded(p) == Done(p) /\ req[p].resp.status = 200
InvalidToken == ErrResp(400, InvalidTokenText)

\* the sessions a redeem handler is responsible for: the MySQL sessions table
\* for the handlers that change users.password_hash, the auth service's
\* sessions for the handler that changes the auth credential
SessionsOf(kind) == IF kind = "confirmAdmin" THEN authSessions ELSE sessions

\* C1: of two redeem requests that present the same raw token, never do both
\* return success and never do both perform the password update.
C1_ExactlyOneWinner ==
    \A p, q \in Procs :
        (p # q /\ IsRedeem(p) /\ IsRedeem(q) /\ req[p].token = req[q].token)
            => /\ ~(Succeeded(p) /\ Succeeded(q))
               /\ ~(req[p].wrote /\ req[q].wrote)

\* C2: a redeem request that starts after a redeem of the same raw token has
\* returned success does not succeed and writes no credential and no session
\* (every failure response is accepted here as the invalid-token error).
C2_SequentialSingleUse ==
    \A p \in Procs :
        (IsRedeem(p) /\ req[p].late)
            => /\ ~req[p].wrote
               /\ Done(p) => req[p].resp.status # 200

\* C3: a redeem request evaluated later than the token's expires_at performs
\* no password update and answers with the invalid-token error.
C3_ExpiredRejected ==
    \A p \in Procs :
        (IsRedeem(p) /\ req[p].expired)
            => /\ ~req[p].wrote
               /\ Done(p) => req[p].resp = InvalidToken

\* C4: a redeem request that starts after an issue for the same subject has
\* completed, and presents the token that issue replaced, fails.
C4_SupersededFails ==
    \A p \in Procs :
        (IsRedeem(p) /\ req[p].sup)
            => /\ ~req[p].wrote
               /\ Done(p) => req[p].resp.status # 200

\* C5: in every state each subject has at most one unused, unexpired token.
C5_AtMostOneActive ==
    \A u \in Users : Cardinality(ActiveMy(u)) <= 1 /\ Cardinality(ActivePg(u)) <= 1

\* C6: the issue endpoint answers an email without account and an email with
\* an account with the same status and the same set of fields.
C6_SameShape ==
    \A p, q \in Procs :
        (/\ req[p].kind \in IssueKinds /\ req[p].kind = req[q].kind
         /\ Done(p) /\ Done(q)
         /\ UserByEmail(req[p].email) = "none" /\ UserByEmail(req[q].email) # "none")
            => /\ req[p].resp.status = req[q].resp.status
               /\ req[p].resp.fields = req[q].resp.fields

\* C7: when a redeem request returns success for a subject, the sessions
\* store holds no session of that subject.
C7_NoSessionAfterSuccess ==
    \A p \in Procs :
        (IsRedeem(p) /\ Succeeded(p)) => req[p].user \notin SessionsOf(req[p].kind)

\* C8: the role row and the relationship row created by redeeming an invite
\* carry the firm and the role recorded when the invite was issued.
C8_BoundToIssuance ==
    \A i \in invite_tokens :
        /\ \A l \in links :
              l.via = i.token
                 => /\ l.firm_id = i.firm_id
                    /\ l.table = (IF i.role = "accountant" THEN "firm_accountants"
                                  ELSE "clients")
        /\ \A r \in user_roles : r.via = i.token => r.role = i.role

\* C9: no stored token row holds a raw token value.
C9_NoRawStored ==
    /\ \A r \in myTokens : r.token \notin RawValues
    /\ \A r \in pgTokens : r.token_hash \notin RawValues

\* C10: redeem requests of one endpoint that fail because the token is
\* unknown, used or expired all get the same status and error text.
C10_SameError ==
    \A p, q \in Procs :
        (/\ IsRedeem(p) /\ IsRedeem(q) /\ req[p].kind = req[q].kind
         /\ Done(p) /\ Done(q)
         /\ req[p].cause # "" /\ req[q].cause # "")
            => req[p].resp = req[q].resp

\* C11: an issue request whose token was inserted and whose mail then failed
\* (SMTP error or SMTP settings missing) answers with the success status and
\* no error field.
C11_DeliveryFailureStillSuccess ==
    \A p \in Procs :
        (req[p].kind \in IssueKinds /\ Done(p) /\ req[p].mail \in {"failed", "noconfig"})
            => /\ req[p].resp.status = 200
               /\ "error" \notin req[p].resp.fields

\* the redeem request q went past the token checks of its handler
PassedChecks(q) == IsRedeem(q) /\ req[q].row # NoRow

\* C12: a redeem request that presents the raw token of an issue whose mail
\* failed, and finds the row stored, unused and unexpired, succeeds (unless
\* the auth service itself refuses the password update).
C12_UndeliveredTokenRedeems ==
    \A p, q \in Procs :
        (/\ req[p].kind \in IssueKinds /\ Done(p) /\ req[p].mail \in {"failed", "noconfig"}
         /\ PassedChecks(q) /\ req[q].token = req[p].raw /\ Done(q))
            => \/ req[q].resp.status = 200
               \/ req[q].resp.error = "Failed to update password"

\* the stored rows a redeem request read its snapshot from
RowsOf(q) ==
    {r \in (IF req[q].kind = "reset" THEN myTokens ELSE pgTokens) : r.id = req[q].row.id}

\* C13: when a redeem request passed the token checks and then failed in its
\* side effect, the token row is marked used.
C13_FailedRedeemConsumes ==
    \A q \in Procs :
        (PassedChecks(q) /\ Done(q) /\ req[q].resp.status # 200)
            => \A r \in RowsOf(q) : r.used_at # NULL

\* C14: a redeem request has written the credential only if the token row it
\* read has used_at set.
C14_MarkBeforeWrite ==
    \A q \in Procs :
        (IsRedeem(q) /\ req[q].wrote) => \A r \in RowsOf(q) : r.used_at # NULL

\* one step keeps the columns of the existing rows: used_at once set, and
\* user_id, the key column and expires_at always
KeptRows(old, new, key) ==
    \A r \in old : \A s \in new :
        s.id = r.id
            => /\ r.used_at # NULL => s.used_at = r.used_at
               /\ s.user_id = r.user_id
               /\ s[key] = r[key]
               /\ s.expires_at = r.expires_at

\* C15: no step changes a used_at that holds a timestamp, and no step changes
\* user_id, the token column or expires_at of an existing row.
C15_UsedAtWrittenOnce ==
    [][/\ KeptRows(myTokens, myTokens', "token")
       /\ KeptRows(pgTokens, pgTokens', "token_hash")]_vars

\* ResetPassword.tsx lines 75-80: the page behind /reset-password?token=...
\* posts the token of the link to reset-password.php, which looks it up in
\* the `token` column.
PageLookup(token) == MySelect(token)

\* C16: a token that an issue handler mailed and that is stored unused and
\* unexpired is found by the redeem endpoint that the mailed link leads to.
C16_RoundTrip ==
    \A p \in Procs :
        (/\ req[p].kind \in IssueKinds /\ Done(p) /\ req[p].mail = "sent"
         /\ req[p].raw \in (ActiveMy(req[p].user) \cup ActivePg(req[p].user)))
            => PageLookup(req[p].raw) # {}

\* C17: an invite-email endpoint sends no mail for a request without a valid
\* session and answers it with a rejection.
C17_InviteNeedsSession ==
    (lastMail.endpoint # "none" /\ ~lastMail.session)
        => ~lastMail.sent /\ lastMail.status \in {401, 403}

\* C18: a redeem request through password-reset-confirm that presents a
\* stored, unused, unexpired token and a password of at least 6 characters
\* returns success, leaves the user's credential verifying against the new
\* password and has marked the token used.
C18_CrossBackendRedeem ==
    \A q \in Procs :
        (req[q].kind = "confirm" /\ PassedChecks(q) /\ Done(q))
            => /\ req[q].resp.status = 200
               /\ req[q].wrote
               /\ req[q].marked

\* the response fields that carry the raw token or the reset link
TokenFields == {"reset_token", "debug_reset_token", "debug_reset_link"}

\* C19: in a production deployment no response of an issue endpoint carries
\* the raw token or the reset link.
C19_NoTokenInProduction ==
    appEnv = "production"
        => \A p \in Procs :
              (req[p].kind \in IssueKinds /\ Done(p))
                  => req[p].resp.fields \cap TokenFields = {}

\* the redeem request q has read the token row as redeemable and has not yet
\* written used_at
InWindow(q) ==
    /\ PassedChecks(q)
    /\ req[q].pc \in {"rp_update", "rp_mark", "ec_fetch", "ea_update", "mark"}

\* C20: no redeem request reads a token row as redeemable while another
\* request is between its own check of that row and its write of used_at.
C20_AtomicConsume ==
    \A p, q \in Procs :
        (p # q /\ InWindow(p) /\ InWindow(q)) => req[p].row.id # req[q].row.id

\* the fetchUserRole call f found no row in any of its queries so far
NeverSet == \A f \in Fetchers : ~fetch[f].set

\* C27: a fetchUserRole call makes at most 4 queries; a call that has set
\* userRole makes no further query; a call ends either by setting userRole or
\* after its 4th query; and userRole is unchanged while no call found a row.
C27_AtMostFourQueries ==
    /\ \A f \in Fetchers :
          /\ fetch[f].queries <= 4
          /\ fetch[f].set => fetch[f].pc = "done"
          /\ fetch[f].pc = "done" => (fetch[f].set \/ fetch[f].queries = 4)
    /\ NeverSet => userRole = "none"

\* one call gave up after its 4th query while the other found the row on a
\* retry
C27_Witness ==
    \E f, g \in Fetchers :
        /\ fetch[f].pc = "done" /\ ~fetch[f].set /\ fetch[f].queries = 4
        /\ fetch[g].set /\ fetch[g].queries > 1 /\ userRole = roleRow

\* the step in which the request of process q starts and its handler lets it
\* past validation and the token checks
Accepted(q) ==
    /\ req[q].pc = "idle"
    /\ req'[q].kind \in RedeemKinds
    /\ req'[q].pc # "done"

\* C21: a redeem handler lets a request past its token checks only while
\* expires_at is strictly greater than the current time; at now = expires_at
\* the request is rejected, by the edge functions as by reset-password.php.
C21_StrictExpiry ==
    [][\A q \in Procs : Accepted(q) => req'[q].row.expires_at > now]_vars

\* the rows of new whose id is in no row of old: the rows one step inserted
NewRows(old, new) == {r \in new : \A o \in old : o.id # r.id}

\* the step in which process p computes the token and its expiry
Computes(p) ==
    /\ req[p].pc \in {"fp_delete", "ei_delete"}
    /\ req'[p].pc \in {"fp_insert", "ei_insert"}

\* the step in which the request of process q starts as a redeem request with
\* a password of valid length
Redeems(q) ==
    /\ req[q].pc = "idle"
    /\ req'[q].kind \in RedeemKinds
    /\ Len(req'[q].password) >= MinPasswordLen

\* the stored unused rows of the token a redeem request presents
UnusedRows(token) ==
    {r \in {x \in myTokens : x.token = token} \cup PgSelect(token) : r.used_at = NULL}

C23_RetryOnCollision ==
    \A p \in Procs :
        (Done(p) /\ req[p].resp.error = "Failed to create reset token")
            => generated >= 2

\* C26: every role row and every relationship row created by the invite page
\* was created for a token that is stored in invite_tokens.
C26_InviteValidated ==
    /\ \A l \in links : \E i \in invite_tokens : i.token = l.via
    /\ \A r \in user_roles : \E i \in invite_tokens : i.token = r.via

\* C28: when a redeem request has returned the success response, the token
\* row it read has used_at set.
C28_SuccessMeansUsed ==
    \A q \in Procs :
        (IsRedeem(q) /\ Succeeded(q)) => \A r \in RowsOf(q) : r.used_at # NULL

\* the redeem handlers would let a request with this raw token past the
\* token checks now
Redeemable(token) ==
    \/ MySelect(token) # {}
    \/ \E r \in PgSelect(token) : r.used_at = NULL /\ ~(r.expires_at < now)

\* the raw tokens whose insert has been attempted
Issued ==
    {generateToken(n) : n \in 0..(generated - 1)}
        \ {req[q].raw : q \in {x \in Procs : req[x].pc \in {"fp_insert", "ei_insert"}}}

\* C29: a token that was issued and is not redeemable is not redeemable after
\* any step either.
C29_RedeemabilityMonotone ==
    [][\A t \in Issued : ~Redeemable(t) => ~Redeemable(t)']_vars

\* one token was replaced by a later issue and a stored token was used before
\* its expiry
C29_Witness ==
    /\ superseded # {}
    /\ \E r \in myTokens : r.used_at # NULL /\ r.expires_at > now

\* the user on whose behalf the request of process p works
Subject(p) == IF req[p].user # "none" THEN req[p].user ELSE req'[p].user

\* one step leaves the token rows, the credentials and the sessions of every
\* user but a as they are
OthersKept(a) ==
    \A u \in Users \ {a} :
        /\ users'[u] = users[u]
        /\ authPassword'[u] = authPassword[u]
        /\ (u \in sessions') = (u \in sessions)
        /\ (u \in authSessions') = (u \in authSessions)
        /\ {r \in myTokens' : r.user_id = u} = {r \in myTokens : r.user_id = u}
        /\ {r \in pgTokens' : r.user_id = u} = {r \in pgTokens : r.user_id = u}

\* one step of a redeem request leaves every token row but the one it read
OnlyThatRow(p) ==
    /\ \A r \in myTokens : r.id # req[p].row.id => r \in myTokens'
    /\ \A r \in pgTokens : r.id # req[p].row.id => r \in pgTokens'
    /\ NewRows(myTokens, myTokens') = {}
    /\ NewRows(pgTokens, pgTokens') = {}

\* C30: a step of a request for user A changes no token row, credential or
\* session of another user, and a step of a redeem request changes no token
\* row but the one it redeems.
C30_FrameOtherUsers ==
    [][\A p \in Procs :
          req'[p] # req[p]
             => /\ OthersKept(Subject(p))
                /\ req[p].kind \in RedeemKinds => OnlyThatRow(p)]_vars

\* a redeem for one user succeeded while another user holds a token row and a
\* session
C30_Witness ==
    \E q \in Procs :
        /\ req[q].kind = "reset" /\ Succeeded(q)
        /\ \E u \in Users \ {req[q].user} :
              u \in sessions /\ \E r \in myTokens : r.user_id = u

\* C24: no command of a later stage is sent after a reply that is not the
\* stage's acknowledgement; a delivery that reports success got the
\* acknowledgement of every stage; and a delivery that got another reply ends
\* with an error, which names the stage of that reply when it carries a code.
C24_OrderedHandshake ==
    /\ ~smtp.after
    /\ smtp.result = "success" => smtp.bad = ""
    /\ (smtp.pc = "returned" /\ smtp.bad # "")
          => /\ smtp.result = "error"
             /\ smtp.error[2] # 0 => smtp.error[1] = PhpContext(smtp.bad)

\* C25: a delivery that opened the connection has closed it exactly once when
\* it returns or throws, and never closes it before or more than once.
C25_ClosedOnce ==
    /\ smtp.closes <= 1
    /\ smtp.closes = 1 => smtp.pc = "returned"
    /\ (smtp.pc = "returned" /\ smtp.opened) => smtp.closes = 1
    /\ ~smtp.opened => smtp.closes = 0

\* a delivery over STARTTLS ended on the failed TLS negotiation with the
\* connection closed
C25_Witness ==
    /\ smtp.pc = "returned" /\ smtp.opened /\ smtp.closes = 1
    /\ smtp.error[1] = "TLS negotiation failed"

====
